---- MODULE Spec2Model ----
(***************************************************************************)
(* Model of product-crossref: catalog ingestion (parse_abc_item_files),    *)
(* the barcode index (map_upcs) and the fix-up steps (fixers.rs).          *)
(* All text is a sequence of one-character strings; an Ean13 is the        *)
(* sequence of its 13 digit characters.                                    *)
(***************************************************************************)
EXTENDS Integers, Sequences, FiniteSets, TLC

VARIABLES
    \* map_upcs
    existing_map, upc_map, pos,
    \* fix-up steps against the inventory window
    abc_prod, ex_prod, barcodes, fields, pc, pass, issued, lastStep, lastResult,
    pre, after1,
    \* parse_abc_item_files
    item_data, posted_data, products, phase, i, result

indexVars == <<existing_map, upc_map, pos>>
fixVars == <<abc_prod, ex_prod, barcodes, fields, pc, pass, issued, lastStep,
             lastResult, pre, after1>>
ingestVars == <<item_data, posted_data, products, phase, i, result>>
vars == <<indexVars, fixVars, ingestVars>>

\* ------------------------------------------------------------------ bounds
MaxUpcs == 2
MaxItemRows == 2
MaxPostedRows == 2

\* ------------------------------------------------------------------- text
\* Option<T>: None, or Some(v)
None == <<>>
Some(v) == <<v>>

Range(s) == {s[k] : k \in DOMAIN s}

SeqsUpTo(S, n) == UNION {[1..m -> S] : m \in 0..n}

Digits == <<"0", "1", "2", "3", "4", "5", "6", "7", "8", "9">>

IsDigit(c) == c \in Range(Digits)

DigitVal(c) == (CHOOSE k \in DOMAIN Digits : Digits[k] = c) - 1

\* str::to_uppercase on the letters the modelled skus use
UpperChar(c) ==
    CASE c = "a" -> "A"
      [] c = "b" -> "B"
      [] c = "k" -> "K"
      [] c = "s" -> "S"
      [] c = "u" -> "U"
      [] c = "z" -> "Z"
      [] OTHER -> c

to_uppercase(s) == [k \in DOMAIN s |-> UpperChar(s[k])]

\* ----------------------------------------------------------------- Ean13
\* Check digit of a 12-digit payload: odd positions weigh 1, even positions 3.
CheckDigit(p) ==
    LET w(k) == IF k % 2 = 1 THEN 1 ELSE 3
        RECURSIVE Sum(_)
        Sum(k) == IF k = 0 THEN 0 ELSE w(k) * DigitVal(p[k]) + Sum(k - 1)
    IN  Digits[((10 - (Sum(12) % 10)) % 10) + 1]

\* Ean13::from_str_nonstrict: the payload digits are trusted, the check digit
\* is recomputed and substituted. A 12-digit (UPC-A) string is padded with a
\* leading zero. The result is .ok(): None stands for Err.
from_str_nonstrict(s) ==
    IF Len(s) < 12 \/ \E k \in DOMAIN s : ~IsDigit(s[k]) THEN None
    ELSE LET t == IF Len(s) = 12 THEN <<"0">> \o s ELSE s
             p == SubSeq(t, 1, 12)
         IN  Some(p \o <<CheckDigit(p)>>)

CodeA == from_str_nonstrict(<<"0","1","2","3","4","5","6","7","8","9","1","0">>)[1]
CodeB == from_str_nonstrict(<<"0","0","0","0","0","0","0","0","0","0","0","0">>)[1]
SampleCodes == {CodeA, CodeB}

\* ============================================================== map_upcs
Keys == {<<"a">>, <<"A">>, <<"b">>}

\* A catalog entry as ingestion leaves it: the key is the sku as read, the
\* product's sku field is the key, or its upper case once a posted row merged.
Entries ==
    {[key |-> k, prod |-> [sku |-> s, upcs |-> u]] :
        k \in Keys, s \in {<<"a">>, <<"A">>, <<"b">>, <<"B">>},
        u \in SeqsUpTo(SampleCodes, MaxUpcs)}

Catalogs ==
    {c \in SeqsUpTo({e \in Entries : e.prod.sku \in {e.key, to_uppercase(e.key)}},
                    Cardinality(Keys)) :
        \A m, n \in DOMAIN c : m # n => c[m].key # c[n].key}

\* The (product, upc) pairs in the order the nested loops visit them.
RECURSIVE Visits(_)
Visits(c) ==
    IF c = <<>> THEN <<>>
    ELSE [k \in DOMAIN Head(c).prod.upcs |->
             [product |-> Head(c).prod, upc |-> Head(c).prod.upcs[k]]]
         \o Visits(Tail(c))

\* HashMap::insert: the new map and the value the key had before
MapInsert(m, k, v) ==
    [old |-> IF k \in DOMAIN m THEN Some(m[k]) ELSE None,
     map |-> [x \in DOMAIN m \cup {k} |-> IF x = k THEN v ELSE m[x]]]

CollideKeepIncoming(dup, prod, product) ==
    [dup |-> dup \o <<product, prod>>, prod |-> product]

CollidePushIncomingOnly(dup, prod, product) ==
    [dup |-> dup \o <<product>>, prod |-> prod]

\* The entry put back when the insert displaced (dup, prod)
Collide(dup, prod, product) ==
    [dup |-> dup \o <<product, prod>>, prod |-> prod]

InsertUpcResult(m, product, upc) ==
    LET first == MapInsert(m, upc, [dup |-> <<>>, prod |-> product])
    IN  IF first.old # None
        THEN MapInsert(first.map, upc,
                       Collide(first.old[1].dup, first.old[1].prod, product)).map
        ELSE first.map

IndexInit ==
    /\ existing_map \in Catalogs
    /\ upc_map = <<>>
    /\ pos = 0

\* One iteration of the inner loop of map_upcs
InsertUpc ==
    /\ pos < Len(Visits(existing_map))
    /\ LET v == Visits(existing_map)[pos + 1]
       IN  upc_map' = InsertUpcResult(upc_map, v.product, v.upc)
    /\ pos' = pos + 1
    /\ UNCHANGED <<existing_map, fixVars, ingestVars>>

indexDone == pos = Len(Visits(existing_map))

\* ============================================================ fixers.rs
\* f64 and Decimal values are m / 10^s; an f64 is kept with no trailing zero
\* in its fraction, a Decimal keeps the scale it was written with.
RECURSIVE NatToText(_)
NatToText(n) ==
    IF n < 10 THEN <<Digits[n + 1]>>
    ELSE NatToText(n \div 10) \o <<Digits[(n % 10) + 1]>>

RECURSIVE Pow10(_)
Pow10(n) == IF n = 0 THEN 1 ELSE 10 * Pow10(n - 1)

\* Display of f64 and of Decimal (to_string)
to_string(x) ==
    LET a == IF x.m < 0 THEN -x.m ELSE x.m
        whole == NatToText(a \div Pow10(x.s))
        frac == NatToText(a % Pow10(x.s))
        pad == [k \in 1..(x.s - Len(frac)) |-> "0"]
    IN  (IF x.m < 0 THEN <<"-">> ELSE <<>>) \o whole
        \o (IF x.s = 0 THEN <<>> ELSE <<".">> \o pad \o frac)

WeightField == 15
RetailField == 25
CostField == 26
GroupField == 39
AltSkuFirst == 35
AltSkuEnd == 38

FieldIds == {WeightField, RetailField, CostField, GroupField}
                \cup (AltSkuFirst..(AltSkuEnd - 1))

\* Calls on the inventory window
clear_upc == [op |-> "clear_upc", idx |-> 0, arg |-> <<>>]
set_upc(upc) == [op |-> "set_upc", idx |-> 0, arg |-> upc]
read_text_box_value(n) == [op |-> "read_text_box_value", idx |-> n, arg |-> <<>>]
set_text_box_value(n, text) == [op |-> "set_text_box_value", idx |-> n, arg |-> text]

\* What a successful call does to the record on screen
Apply(port, c) ==
    IF c.op = "clear_upc" THEN [port EXCEPT !.barcodes = <<>>]
    ELSE IF c.op = "set_upc" THEN [port EXCEPT !.barcodes = Append(@, c.arg)]
    ELSE IF c.op = "set_text_box_value" THEN [port EXCEPT !.fields[c.idx] = c.arg]
    ELSE port

RECURSIVE Effect(_, _)
Effect(port, log) ==
    IF log = <<>> THEN port
    ELSE Effect(IF Head(log).ok THEN Apply(port, Head(log).call) ELSE port,
                Tail(log))

IssueIgnoringErrors(calls, f) ==
    [log |-> [k \in 1..Len(calls) |-> [call |-> calls[k], ok |-> k # f]],
     result |-> "Ok"]

\* The `?` after every call: the f-th call fails (f = 0: none does), the
\* function returns its error and the calls after it are never made.
Issue(calls, f) ==
    [log |-> [k \in 1..(IF f = 0 THEN Len(calls) ELSE f) |->
                 [call |-> calls[k], ok |-> k # f]],
     result |-> IF f = 0 THEN "Ok" ELSE "Err"]

fix_upc_no_filter(abc, ex) ==
    <<clear_upc>> \o [k \in DOMAIN abc.upcs |-> set_upc(abc.upcs[k])]
        \o <<set_upc(ex.upc)>>

RECURSIVE ReAdd(_, _)
ReAdd(upcs, ex_upc) ==
    IF upcs = <<>> THEN <<>>
    ELSE (IF Head(upcs) # ex_upc THEN <<set_upc(Head(upcs))>> ELSE <<>>)
         \o ReAdd(Tail(upcs), ex_upc)

fix_upc(abc, ex) == <<clear_upc>> \o ReAdd(abc.upcs, ex.upc) \o <<set_upc(ex.upc)>>

fix_weight(abc, ex) ==
    IF ex.weight # None
    THEN <<set_text_box_value(WeightField, to_string(ex.weight[1]))>>
    ELSE <<>>

fix_cost(abc, ex) == <<set_text_box_value(CostField, to_string(ex.cost))>>

fix_retail(abc, ex) ==
    IF ex.retail # None
    THEN <<set_text_box_value(RetailField, to_string(ex.retail[1]))>>
    ELSE <<>>

fix_group(abc, ex) == <<set_text_box_value(GroupField, <<"Z">>)>>

RECURSIVE AltSkuNoBreak(_, _, _)
AltSkuNoBreak(n, shown, ex) ==
    IF n >= AltSkuEnd THEN <<>>
    ELSE <<read_text_box_value(n)>>
         \o (IF shown[n] = <<>> THEN <<set_text_box_value(n, ex.sku)>> ELSE <<>>)
         \o AltSkuNoBreak(n + 1, shown, ex)

fix_alt_sku_no_break(shown, ex) == AltSkuNoBreak(AltSkuFirst, shown, ex)

\* for i in 35..38: read the slot; the first empty one is written, then break
RECURSIVE AltSkuFrom(_, _, _)
AltSkuFrom(n, shown, ex) ==
    IF n >= AltSkuEnd THEN <<>>
    ELSE <<read_text_box_value(n)>>
         \o (IF shown[n] = <<>> THEN <<set_text_box_value(n, ex.sku)>>
             ELSE AltSkuFrom(n + 1, shown, ex))

fix_alt_sku(shown, ex) == AltSkuFrom(AltSkuFirst, shown, ex)

Port == [barcodes |-> barcodes, fields |-> fields]

VendorProducts ==
    [sku : {<<>>, <<"V", "1">>}, upc : SampleCodes,
     weight : {None, Some([m |-> 15, s |-> 1])},
     cost : {[m |-> 800, s |-> 2]},
     retail : {None, Some([m |-> 1200, s |-> 2])}]

FixInit ==
    /\ abc_prod \in [sku : {<<"A">>}, upcs : SeqsUpTo(SampleCodes, MaxUpcs)]
    /\ ex_prod \in VendorProducts
    /\ barcodes \in SeqsUpTo(SampleCodes, 1)
    /\ \E old \in {<<>>, <<"7">>} :
         fields \in {fl \in [FieldIds -> {<<>>, <<"X">>, <<"7">>}] :
            /\ \A n \in {WeightField, RetailField, CostField, GroupField} : fl[n] = old
            /\ \A n \in AltSkuFirst..(AltSkuEnd - 1) : fl[n] \in {<<>>, <<"X">>}}
    /\ pc = "fix_upc"
    /\ pass = 1
    /\ issued = <<>>
    /\ lastStep = "none"
    /\ lastResult = "Ok"
    /\ pre = Port
    /\ after1 = Port

\* One fix-up function run against the window: it makes `calls` in order.
Step(name, calls, next) ==
    \E f \in 0..Len(calls) :
        LET r == Issue(calls, f)
            port == Effect(Port, r.log)
        IN  /\ issued' = r.log
            /\ lastStep' = name
            /\ lastResult' = r.result
            /\ pre' = Port
            /\ barcodes' = port.barcodes
            /\ fields' = port.fields
            /\ pc' = IF r.result = "Ok" THEN next ELSE "failed"
            /\ UNCHANGED <<abc_prod, ex_prod, pass, after1, indexVars, ingestVars>>

FixUpc == pc = "fix_upc" /\ Step("fix_upc", fix_upc(abc_prod, ex_prod), "fix_weight")

FixWeight ==
    pc = "fix_weight" /\ Step("fix_weight", fix_weight(abc_prod, ex_prod), "fix_cost")

FixCost == pc = "fix_cost" /\ Step("fix_cost", fix_cost(abc_prod, ex_prod), "fix_retail")

FixRetail ==
    pc = "fix_retail" /\ Step("fix_retail", fix_retail(abc_prod, ex_prod), "fix_group")

FixGroup ==
    pc = "fix_group" /\ Step("fix_group", fix_group(abc_prod, ex_prod), "fix_alt_sku")

FixAltSku ==
    pc = "fix_alt_sku" /\ Step("fix_alt_sku", fix_alt_sku(fields, ex_prod), "applied")

\* The whole sequence is applied a second time to the record it left.
Reapply ==
    /\ pc = "applied"
    /\ pass = 1
    /\ pass' = 2
    /\ after1' = Port
    /\ pc' = "fix_upc"
    /\ UNCHANGED <<abc_prod, ex_prod, barcodes, fields, issued, lastStep,
                   lastResult, pre, indexVars, ingestVars>>

\* ================================================= parse_abc_item_files
RECURSIVE TextToNat(_)
TextToNat(t) ==
    IF t = <<>> THEN 0
    ELSE 10 * TextToNat(SubSeq(t, 1, Len(t) - 1)) + DigitVal(t[Len(t)])

AllDigits(t) == \A k \in DOMAIN t : IsDigit(t[k])

\* The text before and after the first "." (no ".": all of it, and nothing)
BeforeDot(t) ==
    IF \E k \in DOMAIN t : t[k] = "."
    THEN SubSeq(t, 1, (CHOOSE k \in DOMAIN t :
                          t[k] = "." /\ \A j \in 1..(k - 1) : t[j] # ".") - 1)
    ELSE t

AfterDot(t) ==
    IF \E k \in DOMAIN t : t[k] = "."
    THEN SubSeq(t, Len(BeforeDot(t)) + 2, Len(t))
    ELSE <<>>

\* Decimal::from_str_exact on plain decimal notation: the scale is the number
\* of fraction digits written. None stands for Err.
from_str_exact(t) ==
    LET a == BeforeDot(t)
        b == AfterDot(t)
    IN  IF AllDigits(a) /\ AllDigits(b) /\ Len(a) + Len(b) > 0
        THEN Some([m |-> TextToNat(a \o b), s |-> Len(b)])
        ELSE None

IsPriceChar(c) == IsDigit(c) \/ c = "."

price_from_str(price_str) == from_str_exact(SelectSeq(price_str, IsPriceChar))

RECURSIVE Normalize(_)
Normalize(x) ==
    IF x.s > 0 /\ x.m % 10 = 0 THEN Normalize([m |-> x.m \div 10, s |-> x.s - 1])
    ELSE x

\* str::parse::<f64> on plain decimal notation with an optional sign
parse_f64(t) ==
    LET neg == t # <<>> /\ t[1] = "-"
        u == IF t # <<>> /\ t[1] \in {"-", "+"} THEN Tail(t) ELSE t
        a == BeforeDot(u)
        b == AfterDot(u)
    IN  IF AllDigits(a) /\ AllDigits(b) /\ Len(a) + Len(b) > 0
        THEN Some(Normalize([m |-> (IF neg THEN -1 ELSE 1) * TextToNat(a \o b),
                             s |-> Len(b)]))
        ELSE None

DaysIn(y, mo) ==
    IF mo \in {4, 6, 9, 11} THEN 30
    ELSE IF mo = 2
         THEN (IF y % 4 = 0 /\ (y % 100 # 0 \/ y % 400 = 0) THEN 29 ELSE 28)
         ELSE 31

\* NaiveDate::parse_from_str(s, "%Y-%m-%d").ok() on the yyyy-mm-dd layout
parse_date(t) ==
    IF /\ Len(t) = 10
       /\ t[5] = "-" /\ t[8] = "-"
       /\ AllDigits(SubSeq(t, 1, 4)) /\ AllDigits(SubSeq(t, 6, 7))
       /\ AllDigits(SubSeq(t, 9, 10))
    THEN LET y == TextToNat(SubSeq(t, 1, 4))
             mo == TextToNat(SubSeq(t, 6, 7))
             d == TextToNat(SubSeq(t, 9, 10))
         IN  IF mo \in 1..12 /\ d \in 1..DaysIn(y, mo)
             THEN Some([y |-> y, mo |-> mo, d |-> d])
             ELSE None
    ELSE None

\* str::split(","): the pieces between the commas, empty ones included
RECURSIVE Split(_)
Split(t) ==
    IF \E k \in DOMAIN t : t[k] = ","
    THEN LET k == CHOOSE k \in DOMAIN t : t[k] = "," /\ \A j \in 1..(k - 1) : t[j] # ","
         IN  <<SubSeq(t, 1, k - 1)>> \o Split(SubSeq(t, k + 1, Len(t)))
    ELSE <<t>>

IsUpcChar(c) == IsDigit(c) \/ c = ","

UpcOfTokenDropEleven(tok) ==
    IF Len(tok) <= 11 THEN None ELSE from_str_nonstrict(tok)

\* The closure given to filter_map
UpcOfToken(tok) ==
    IF Len(tok) = 11 THEN from_str_nonstrict(tok \o <<"0">>)
    ELSE IF Len(tok) < 11 THEN None
    ELSE from_str_nonstrict(tok)

RECURSIVE FilterMapUpcs(_)
FilterMapUpcs(toks) ==
    IF toks = <<>> THEN <<>>
    ELSE UpcOfToken(Head(toks)) \o FilterMapUpcs(Tail(toks))

ParseUpcs(field) == FilterMapUpcs(Split(SelectSeq(field, IsUpcChar)))

\* A csv record: the text of its columns, or a reader error
Row(cols) == [csv_err |-> FALSE, cols |-> cols]
BadRecord == [csv_err |-> TRUE, cols |-> <<>>]
get(row, n) == IF n \in DOMAIN row.cols THEN Some(row.cols[n]) ELSE None

ItemCols(sku, desc, list, cost, upcs) ==
    (0 :> sku) @@ (1 :> desc) @@ (6 :> list) @@ (8 :> cost) @@ (43 :> upcs)

Sku1 == <<"S", "K", "U", "1">>
sku1 == <<"s", "k", "u", "1">>
Unknown == <<"Z", "Z">>

ItemSamples == <<
    \* the end-to-end row: two 11-digit tokens
    Row(ItemCols(Sku1, <<"W">>, <<"1","2",".","0","0">>, <<"8",".","0","0">>,
                 <<"0","1","2","3","4","5","6","7","8","9","1",",",
                   "0","0","0","0","0","0","0","0","0","0","0">>)
        @@ (45 :> <<"1",".","5">>)),
    \* lower-case sku, noisy prices, a dead token, then an 11-digit token and
    \* a 13-digit one with a wrong check digit that repair to the same code
    Row(ItemCols(sku1, <<"G">>, <<"$","3",".","5","0">>, <<"2",".","2","5"," ">>,
                 <<"1","2","3",",","0","1","2","3","4","5","6","7","8","9","1",",",
                   "0","0","1","2","3","4","5","6","7","8","9","1","9">>)
        @@ (45 :> <<"2">>)),
    \* no digit in the list price
    Row(ItemCols(Sku1, <<"B">>, <<"N","/","A">>, <<"1">>, <<>>) @@ (45 :> <<"1">>)),
    \* the weight column is missing
    Row(ItemCols(sku1, <<"S">>, <<"1">>, <<"1">>, <<>>))
>>

PostedCols(sku, last_sold, stock) == (0 :> sku) @@ (1 :> last_sold) @@ (19 :> stock)

Jan10 == <<"2","0","2","4","-","0","1","-","1","0">>
Feb30 == <<"2","0","2","4","-","0","2","-","3","0">>

PostedSamples == <<
    Row(PostedCols(Sku1, Jan10, <<"5">>)),
    Row(PostedCols(Sku1, Feb30, <<"0",".","5","0">>)),
    Row(PostedCols(sku1, <<"n","/","a">>, <<"7">>)),
    Row(PostedCols(Unknown, Jan10, <<"1">>)),
    Row(PostedCols(Unknown, Jan10, <<"a","b","c">>)),
    BadRecord
>>

\* AbcParseError::Custom(format!(...)): the text, and the row and sku it names
Custom(msg, row, sku) == [kind |-> "Custom", msg |-> msg, row |-> Some(row), sku |-> sku]
CsvError == [kind |-> "CsvError", msg |-> "", row |-> None, sku |-> None]

Ok(v) == [kind |-> "Ok", val |-> v]
Err(e) == [kind |-> "Err", err |-> e]

\* The body of the first loop for row number n: the product to insert
ItemRowResult(row, n) ==
    IF row.csv_err THEN Err(CsvError)
    ELSE IF get(row, 0) = None
        THEN Err(Custom("Cannot deserialize sku in row", n, None))
    ELSE IF get(row, 1) = None
        THEN Err(Custom("Cannot deserialize desc in row", n, None))
    ELSE IF get(row, 43) = None
        THEN Err(Custom("Cannot fetch upcs in row", n, None))
    ELSE IF get(row, 6) = None
        THEN Err(Custom("Cannot fetch list price from row", n, None))
    ELSE IF price_from_str(get(row, 6)[1]) = None
        THEN Err(Custom("Cannot parse a price in cents for list in row", n, None))
    ELSE IF get(row, 8) = None
        THEN Err(Custom("Cannot fetch cost from row", n, None))
    ELSE IF price_from_str(get(row, 8)[1]) = None
        THEN Err(Custom("Cannot parse a price in cents for cost in row", n, None))
    ELSE IF get(row, 45) = None
        THEN Err(Custom("Cannot fetch weight from row", n, None))
    ELSE IF parse_f64(get(row, 45)[1]) = None
        THEN Err(Custom("Failed to parse f64 from weight in row", n, None))
    ELSE Ok([sku |-> get(row, 0)[1],
             desc |-> get(row, 1)[1],
             upcs |-> ParseUpcs(get(row, 43)[1]),
             list |-> price_from_str(get(row, 6)[1])[1],
             cost |-> price_from_str(get(row, 8)[1])[1],
             weight |-> parse_f64(get(row, 45)[1])[1],
             stock |-> [m |-> 0, s |-> 0],
             last_sold |-> None])

MergeUnderUpperKey(prods, sku, stock, last_sold) ==
    LET existing_record ==
            [prods[sku] EXCEPT !.stock = stock, !.sku = to_uppercase(@),
                               !.last_sold = last_sold]
    IN  MapInsert(prods, existing_record.sku, existing_record).map

\* The clone of the record found, changed and inserted again under the same key
Merge(prods, sku, stock, last_sold) ==
    LET existing_record ==
            [prods[sku] EXCEPT !.stock = stock, !.sku = to_uppercase(@),
                               !.last_sold = last_sold]
    IN  MapInsert(prods, sku, existing_record).map

PostedRowSkipUnknown(row, n, prods) ==
    IF row.csv_err THEN Err(CsvError)
    ELSE IF get(row, 0) = None
        THEN Err(Custom("Cannot deserialize sku in row of posted items", n, None))
    ELSE IF get(row, 19) = None
        THEN Err(Custom("Cannot deserialize stock in row of posted items", n, None))
    ELSE IF parse_f64(get(row, 19)[1]) = None
        THEN Err(Custom("Cannot parse f64 from stock_str in row of posted items", n, None))
    ELSE IF get(row, 1) = None
        THEN Err(Custom("Cannot deserialize last_sold in row of posted items", n, None))
    ELSE IF get(row, 0)[1] \notin DOMAIN prods
        THEN Ok(prods)
    ELSE Ok(Merge(prods, get(row, 0)[1], parse_f64(get(row, 19)[1])[1],
                  parse_date(get(row, 1)[1])))

\* The body of the second loop for row number n: the catalog after the merge
PostedRowResult(row, n, prods) ==
    IF row.csv_err THEN Err(CsvError)
    ELSE IF get(row, 0) = None
        THEN Err(Custom("Cannot deserialize sku in row of posted items", n, None))
    ELSE IF get(row, 19) = None
        THEN Err(Custom("Cannot deserialize stock in row of posted items", n, None))
    ELSE IF parse_f64(get(row, 19)[1]) = None
        THEN Err(Custom("Cannot parse f64 from stock_str in row of posted items", n, None))
    ELSE IF get(row, 1) = None
        THEN Err(Custom("Cannot deserialize last_sold in row of posted items", n, None))
    ELSE IF get(row, 0)[1] \notin DOMAIN prods
        THEN Err(Custom("Cannot find existing product for item with sku in row of posted_data",
                        n, Some(get(row, 0)[1])))
    ELSE Ok(Merge(prods, get(row, 0)[1], parse_f64(get(row, 19)[1])[1],
                  parse_date(get(row, 1)[1])))

Pending == [kind |-> "Pending"]

IngestInit ==
    /\ item_data \in SeqsUpTo(DOMAIN ItemSamples, MaxItemRows)
    /\ posted_data \in SeqsUpTo(DOMAIN PostedSamples, MaxPostedRows)
    /\ products = <<>>
    /\ phase = "items"
    /\ i = 0
    /\ result = Pending

\* One iteration of the loop over the item file
ItemRow ==
    /\ phase = "items"
    /\ i < Len(item_data)
    /\ LET r == ItemRowResult(ItemSamples[item_data[i + 1]], i + 1)
       IN  IF r.kind = "Ok"
           THEN /\ products' = MapInsert(products, r.val.sku, r.val).map
                /\ UNCHANGED <<phase, result>>
           ELSE /\ result' = Err(r.err)
                /\ phase' = "done"
                /\ UNCHANGED products
    /\ i' = i + 1
    /\ UNCHANGED <<item_data, posted_data, indexVars, fixVars>>

\* The item file is exhausted: `let mut i = 0` and the second loop starts
ItemsEnd ==
    /\ phase = "items"
    /\ i = Len(item_data)
    /\ phase' = "posted"
    /\ i' = 0
    /\ UNCHANGED <<item_data, posted_data, products, result, indexVars, fixVars>>

\* One iteration of the loop over the posted file
PostedRow ==
    /\ phase = "posted"
    /\ i < Len(posted_data)
    /\ LET r == PostedRowResult(PostedSamples[posted_data[i + 1]], i + 1, products)
       IN  IF r.kind = "Ok"
           THEN /\ products' = r.val
                /\ UNCHANGED <<phase, result>>
           ELSE /\ result' = Err(r.err)
                /\ phase' = "done"
                /\ UNCHANGED products
    /\ i' = i + 1
    /\ UNCHANGED <<item_data, posted_data, indexVars, fixVars>>

\* Ok(products)
ReturnOk ==
    /\ phase = "posted"
    /\ i = Len(posted_data)
    /\ result' = Ok(products)
    /\ phase' = "done"
    /\ UNCHANGED <<item_data, posted_data, products, i, indexVars, fixVars>>

\* ======================================================= specifications
\* placeholder values of the variables a specification does not use
IdleIndex == existing_map = <<>> /\ upc_map = <<>> /\ pos = 0

IdleFix ==
    /\ abc_prod = <<>> /\ ex_prod = <<>> /\ barcodes = <<>> /\ fields = <<>>
    /\ pc = "idle" /\ pass = 0 /\ issued = <<>> /\ lastStep = "none"
    /\ lastResult = "Ok" /\ pre = <<>> /\ after1 = <<>>

IdleIngest ==
    /\ item_data = <<>> /\ posted_data = <<>> /\ products = <<>>
    /\ phase = "idle" /\ i = 0 /\ result = Pending

IndexNext == InsertUpc

InitIndexSpec == IndexInit /\ IdleFix /\ IdleIngest

SpecIndex == InitIndexSpec /\ [][IndexNext]_vars

FixNext ==
    \/ FixUpc
    \/ FixWeight
    \/ FixCost
    \/ FixRetail
    \/ FixGroup
    \/ FixAltSku
    \/ Reapply

InitFixSpec == FixInit /\ IdleIndex /\ IdleIngest

SpecFix == InitFixSpec /\ [][FixNext]_vars

IngestNext ==
    \/ ItemRow
    \/ ItemsEnd
    \/ PostedRow
    \/ ReturnOk

InitIngestSpec == IngestInit /\ IdleIndex /\ IdleFix

SpecIngest == InitIngestSpec /\ [][IngestNext]_vars

\* ================================================================ claims
Min(S) == CHOOSE x \in S : \A y \in S : x <= y
Max(S) == CHOOSE x \in S : \A y \in S : x >= y

\* ------------------------------------------------------------- map_upcs
AllVisits == Visits(existing_map)
VisitsOf(b) == {k \in DOMAIN AllVisits : AllVisits[k].upc = b}
CarriedCodes == {AllVisits[k].upc : k \in DOMAIN AllVisits}
Carries(n, b) == b \in Range(existing_map[n].prod.upcs)

C2_DuplicatesOnlyAcrossSkus ==
    indexDone =>
        \A b \in DOMAIN upc_map :
            upc_map[b].dup # <<>> =>
                \E m, n \in DOMAIN existing_map :
                    /\ existing_map[m].prod.sku # existing_map[n].prod.sku
                    /\ Carries(m, b)
                    /\ Carries(n, b)

\* C5: once the index is built, any two catalog products with different skus
\* that share a barcode are both in that barcode's DuplicateGroup, whatever
\* the iteration order and however many products share the barcode.
C5_DuplicatesSymmetric ==
    indexDone =>
        \A m, n \in DOMAIN existing_map :
            \A b \in CarriedCodes :
                (/\ existing_map[m].prod.sku # existing_map[n].prod.sku
                 /\ Carries(m, b)
                 /\ Carries(n, b))
                => /\ b \in DOMAIN upc_map
                   /\ existing_map[m].prod \in Range(upc_map[b].dup)
                   /\ existing_map[n].prod \in Range(upc_map[b].dup)

C5_Witness ==
    /\ indexDone
    /\ Len(existing_map) = 3
    /\ \E b \in DOMAIN upc_map :
          /\ \A n \in DOMAIN existing_map : Carries(n, b)
          /\ \A m, n \in DOMAIN existing_map :
                m # n => existing_map[m].prod.sku # existing_map[n].prod.sku
          /\ \A n \in DOMAIN existing_map :
                existing_map[n].prod \in Range(upc_map[b].dup)

\* ------------------------------------------------------------ fixers.rs
AltSlots == AltSkuFirst..(AltSkuEnd - 1)
Writes == {k \in DOMAIN issued : issued[k].call.op = "set_text_box_value"}
NotVendorUpc(u) == u # ex_prod.upc

\* C3 (as claimed): with every call succeeding, applying the whole sequence
\* a second time leaves the record as the first application left it.
C3_SequenceIdempotent ==
    (pc = "applied" /\ pass = 2) => Port = after1

C8_AltSkuFirstEmpty ==
    lastStep = "fix_alt_sku" =>
        LET empties == {n \in AltSlots : pre.fields[n] = <<>>}
        IN  /\ Cardinality(Writes) <= 1
            /\ \A k \in DOMAIN issued :
                  issued[k].call.op \in {"read_text_box_value", "set_text_box_value"}
            /\ \A k \in Writes :
                  /\ empties # {}
                  /\ issued[k].call.idx = Min(empties)
                  /\ issued[k].call.arg = ex_prod.sku
            /\ barcodes = pre.barcodes
            /\ \A n \in FieldIds :
                  fields[n] # pre.fields[n] => (n = Min(empties) /\ fields[n] = ex_prod.sku)
            /\ lastResult = "Ok" =>
                  IF empties = {}
                  THEN Writes = {} /\ fields = pre.fields
                  ELSE /\ Cardinality(Writes) = 1
                       /\ fields = [pre.fields EXCEPT ![Min(empties)] = ex_prod.sku]
            /\ lastResult = "Err" => \E k \in DOMAIN issued : ~issued[k].ok

C8_Witness ==
    /\ lastStep = "fix_alt_sku"
    /\ lastResult = "Ok"
    /\ pre.fields[35] = <<"X">>
    /\ pre.fields[36] = <<>>
    /\ pre.fields[37] = <<>>
    /\ ex_prod.sku = <<"V", "1">>
    /\ fields[35] = <<"X">>
    /\ fields[36] = <<"V", "1">>
    /\ fields[37] = <<>>

\* C10: in every fix-up step a failed call is the last call the step makes
\* and the step returns the error; a step returns Ok only if every call it
\* made succeeded.
C10_FailureStopsStep ==
    lastStep # "none" =>
        /\ \A k \in DOMAIN issued :
              ~issued[k].ok => (k = Len(issued) /\ lastResult = "Err")
        /\ lastResult = "Ok" => \A k \in DOMAIN issued : issued[k].ok
        /\ lastResult = "Err" => (issued # <<>> /\ ~issued[Len(issued)].ok)

C10_Witness ==
    /\ lastStep = "fix_upc"
    /\ lastResult = "Err"
    /\ Len(issued) = 2
    /\ ~issued[2].ok
    /\ Len(abc_prod.upcs) = 2
    /\ ex_prod.upc \notin Range(abc_prod.upcs)
    /\ barcodes = <<>>
    /\ pc = "failed"

\* ------------------------------------------------- parse_abc_item_files
ItemRowAt(k) == ItemSamples[item_data[k]]
PostedRowAt(k) == PostedSamples[posted_data[k]]

ItemsAllOk == \A k \in DOMAIN item_data : ItemRowResult(ItemRowAt(k), k).kind = "Ok"

\* the keys the item source produces
ItemKeys == {ItemRowAt(k).cols[0] : k \in {j \in DOMAIN item_data : 0 \in DOMAIN ItemRowAt(j).cols}}

HasSku(k) == ~PostedRowAt(k).csv_err /\ 0 \in DOMAIN PostedRowAt(k).cols

UnknownRows == {k \in DOMAIN posted_data : HasSku(k) /\ PostedRowAt(k).cols[0] \notin ItemKeys}

\* the row's other columns are present and its stock is a number
WellFormed(k) ==
    /\ HasSku(k)
    /\ 19 \in DOMAIN PostedRowAt(k).cols
    /\ 1 \in DOMAIN PostedRowAt(k).cols
    /\ parse_f64(PostedRowAt(k).cols[19]) # None

\* every row before the first row with an unknown sku was processed
FirstUnknownIsFirstFailure ==
    /\ ItemsAllOk
    /\ UnknownRows # {}
    /\ \A j \in 1..(Min(UnknownRows) - 1) : WellFormed(j)

NamesRowAndSku(e, k) == e.row = Some(k) /\ e.sku = Some(PostedRowAt(k).cols[0])

\* C6 (as claimed): when the first row that cannot be processed is a posted
\* row whose sku is no key of the item source, ingestion fails with an error
\* naming that row and sku; an error never comes with a catalog.
C6_UnknownSkuNamed ==
    phase = "done" =>
        /\ FirstUnknownIsFirstFailure =>
              (result.kind = "Err" /\ NamesRowAndSku(result.err, Min(UnknownRows)))
        /\ result.kind = "Err" => DOMAIN result = {"kind", "err"}

\* C6 (amended): ingestion fails whenever some posted row's sku is no key of
\* the item source; the error names that row and sku when it is the first
\* row that cannot be processed and its stock and date columns are present
\* and its stock parses (else the error is the one about that column); an
\* error never comes with a catalog, and a catalog only after every row.
C6_UnknownSkuFails ==
    phase = "done" =>
        /\ result.kind \in {"Ok", "Err"}
        /\ UnknownRows # {} => result.kind = "Err"
        /\ (FirstUnknownIsFirstFailure /\ WellFormed(Min(UnknownRows))) =>
              (/\ result.kind = "Err"
               /\ result.err.kind = "Custom"
               /\ NamesRowAndSku(result.err, Min(UnknownRows)))
        /\ (FirstUnknownIsFirstFailure /\ ~WellFormed(Min(UnknownRows))) =>
              (/\ result.kind = "Err"
               /\ result.err.row = Some(Min(UnknownRows))
               /\ result.err.sku = None)
        /\ result.kind = "Err" => DOMAIN result = {"kind", "err"}
        /\ result.kind = "Ok" => (i = Len(posted_data) /\ result.val = products)

C6_Witness ==
    /\ phase = "done"
    /\ Len(item_data) = 2
    /\ posted_data = <<1, 4>>
    /\ ItemKeys = {Sku1, sku1}
    /\ result.kind = "Err"
    /\ result.err.row = Some(2)
    /\ result.err.sku = Some(Unknown)

\* C7: a posted row that merges upper-cases the sku field of the record under
\* its sku and sets its stock and last_sold from the row (None for a date that
\* does not parse), leaving its other fields and every other record alone; a
\* returned catalog holds, per record, the values of the last posted row for it.
C7_MergeFrame ==
    /\ [][(phase = "posted" /\ phase' = "posted" /\ i' = i + 1) =>
            LET row == PostedRowAt(i')
                key == row.cols[0]
            IN  /\ DOMAIN products' = DOMAIN products
                /\ \A k \in DOMAIN products \ {key} : products'[k] = products[k]
                /\ products'[key].sku = to_uppercase(products[key].sku)
                /\ products'[key].stock = parse_f64(row.cols[19])[1]
                /\ products'[key].last_sold = parse_date(row.cols[1])
                /\ products'[key].desc = products[key].desc
                /\ products'[key].upcs = products[key].upcs
                /\ products'[key].list = products[key].list
                /\ products'[key].cost = products[key].cost
                /\ products'[key].weight = products[key].weight]_vars
    /\ [](result.kind = "Ok" =>
            \A key \in DOMAIN result.val :
                LET rows == {k \in DOMAIN posted_data : PostedRowAt(k).cols[0] = key}
                IN  IF rows = {}
                    THEN /\ result.val[key].stock = [m |-> 0, s |-> 0]
                         /\ result.val[key].last_sold = None
                    ELSE /\ result.val[key].stock
                              = parse_f64(PostedRowAt(Max(rows)).cols[19])[1]
                         /\ result.val[key].last_sold
                              = parse_date(PostedRowAt(Max(rows)).cols[1]))

C7_Witness ==
    /\ phase = "posted"
    /\ i = 2
    /\ item_data = <<1, 2>>
    /\ posted_data = <<1, 3>>
    /\ products[sku1].sku = Sku1
    /\ products[sku1].stock = [m |-> 7, s |-> 0]
    /\ products[sku1].last_sold = None
    /\ products[sku1].desc = <<"G">>
    /\ products[Sku1].stock = [m |-> 5, s |-> 0]
    /\ products[Sku1].last_sold = Some([y |-> 2024, mo |-> 1, d |-> 10])

EndToEnd == item_data = <<1>> /\ posted_data = <<1>>

ScenarioFields(p) ==
    /\ p.sku = Sku1
    /\ p.stock = [m |-> 5, s |-> 0]
    /\ p.weight = [m |-> 15, s |-> 1]
    /\ p.cost = [m |-> 800, s |-> 2]
    /\ p.list = [m |-> 1200, s |-> 2]

\* C9 (as claimed): the end-to-end row yields product SKU1 with stock 5,
\* weight 1.5, cost 8.00, list 12.00 and exactly one barcode.
C9_OneBarcode ==
    (phase = "done" /\ EndToEnd) =>
        /\ result.kind = "Ok"
        /\ DOMAIN result.val = {Sku1}
        /\ ScenarioFields(result.val[Sku1])
        /\ Len(result.val[Sku1].upcs) = 1

\* C9 (amended): the end-to-end row yields product SKU1 with stock 5, weight
\* 1.5, cost 8.00, list 12.00 and two barcodes, one per 11-digit token:
\* 0012345678912 and 0000000000000; no token is dropped.
C9_TwoBarcodes ==
    (phase = "done" /\ EndToEnd) =>
        /\ result.kind = "Ok"
        /\ DOMAIN result.val = {Sku1}
        /\ ScenarioFields(result.val[Sku1])
        /\ result.val[Sku1].upcs
              = << <<"0","0","1","2","3","4","5","6","7","8","9","1","2">>,
                   <<"0","0","0","0","0","0","0","0","0","0","0","0","0">> >>

C9_Witness ==
    /\ phase = "done"
    /\ EndToEnd
    /\ result.kind = "Ok"
    /\ Len(result.val[Sku1].upcs) = 2
====
